---------------------------- MODULE Spec2Model ----------------------------
(***************************************************************************)
(* Montgomery-curve Diffie-Hellman (x25519 / x448) of mima-kit: the ladder, *)
(* the conditional swap, the scalar clamps and the gen / ecdh wiring of the *)
(* two curve instances.                                                     *)
(*                                                                          *)
(* TLC integers are 32 bits wide, so the two curve domains are scaled down: *)
(* the 255-bit instance becomes a 15-bit one (p = 2^15 - 19, keys of 2      *)
(* bytes, one spare bit above the field as in 2^255 - 19 / 32 bytes), the   *)
(* 448-bit instance becomes an 8-bit one (p = 2^8 - 2^4 - 1, keys of 1      *)
(* byte, no spare bit, as in 2^448 - 2^224 - 1 / 56 bytes).  The clamp      *)
(* masks keep their shape (7F..F8 | 40..00 and FF..FC | 80..00).  ladder,   *)
(* cSwap and the wiring are width-independent and modelled as written.      *)
(***************************************************************************)
EXTENDS Integers, Sequences, FiniteSets, TLC

----------------------------------------------------------------------------
(* BigInt operators of the language: >>, &, ^, | on two's complement        *)
(* integers of unbounded width (-1 is all ones).                            *)

ShiftRight(a, i) == a \div (2 ^ i)

RECURSIVE BitAnd(_, _)
BitAnd(a, b) ==
  IF a = 0 \/ b = 0 THEN 0
  ELSE IF a = -1 THEN b
  ELSE IF b = -1 THEN a
  ELSE (a % 2) * (b % 2) + 2 * BitAnd(a \div 2, b \div 2)

RECURSIVE BitXor(_, _)
BitXor(a, b) ==
  IF a = 0 THEN b
  ELSE IF b = 0 THEN a
  ELSE (((a % 2) + (b % 2)) % 2) + 2 * BitXor(a \div 2, b \div 2)

RECURSIVE BitOr(_, _)
BitOr(a, b) ==
  IF a = 0 THEN b
  ELSE IF b = 0 THEN a
  ELSE (IF a % 2 = 1 \/ b % 2 = 1 THEN 1 ELSE 0) + 2 * BitOr(a \div 2, b \div 2)

----------------------------------------------------------------------------
(* Fp(p): the field arithmetic collaborator (core/ec), results in [0, p).   *)

plus(p, a, b) == ((a % p) + (b % p)) % p

subtract(p, a, b) == ((a % p) - (b % p)) % p

multiply(p, a, b) == ((a % p) * (b % p)) % p

RECURSIVE pow(_, _, _)
pow(p, a, e) ==
  IF e = 0 THEN 1 % p
  ELSE LET h == pow(p, a, e \div 2)
           hh == multiply(p, h, h)
       IN IF e % 2 = 1 THEN multiply(p, hh, a) ELSE hh

----------------------------------------------------------------------------
(* cSwap and ladder.                                                        *)

(* Mutant: the mask is swap itself instead of -swap.                        *)
cSwap_lowbit(swap, x_2, x_3) ==
  LET mask == swap
      dummy == BitAnd(mask, BitXor(x_2, x_3))
  IN <<BitXor(x_2, dummy), BitXor(x_3, dummy)>>

cSwap(swap, x_2, x_3) ==
  LET mask == 0 - swap
      dummy == BitAnd(mask, BitXor(x_2, x_3))
  IN <<BitXor(x_2, dummy), BitXor(x_3, dummy)>>

LadderInit(u) == [x_2 |-> 1, z_2 |-> 0, x_3 |-> u, z_3 |-> 1, swap |-> 0]

RECURSIVE BitLength(_)
BitLength(n) == IF n = 0 THEN 0 ELSE 1 + BitLength(n \div 2)

(* Mutant: the loop starts at the highest set bit of k.                     *)
LoopStart_at_top_bit(k, bit) == BitLength(k) - 1

(* The index the loop starts at.                                            *)
LoopStart(k, bit) == bit - 1

(* First half of the loop body: k_t, swap ^= k_t, the two cSwap calls,      *)
(* swap = k_t.                                                              *)
SwapPart(s, k, i) ==
  LET k_t == BitAnd(ShiftRight(k, i), 1)
      sw == BitXor(s.swap, k_t)
      X == cSwap(sw, s.x_2, s.x_3)
      Z == cSwap(sw, s.z_2, s.z_3)
  IN [x_2 |-> X[1], x_3 |-> X[2], z_2 |-> Z[1], z_3 |-> Z[2], swap |-> k_t]

(* Mutant: z_3 is u times the square as a plain product, not the field's.   *)
FieldPart_raw_product(s, u, p, a24) ==
  LET A == plus(p, s.x_2, s.z_2)
      AA == pow(p, A, 2)
      B == subtract(p, s.x_2, s.z_2)
      BB == pow(p, B, 2)
      E == subtract(p, AA, BB)
      C == plus(p, s.x_3, s.z_3)
      D == subtract(p, s.x_3, s.z_3)
      DA == multiply(p, D, A)
      CB == multiply(p, C, B)
  IN [x_3 |-> pow(p, plus(p, DA, CB), 2),
      z_3 |-> u * pow(p, subtract(p, DA, CB), 2),
      x_2 |-> multiply(p, AA, BB),
      z_2 |-> multiply(p, E, plus(p, AA, multiply(p, E, a24))),
      swap |-> s.swap]

(* Second half of the loop body: the field operations.                      *)
FieldPart(s, u, p, a24) ==
  LET A == plus(p, s.x_2, s.z_2)
      AA == pow(p, A, 2)
      B == subtract(p, s.x_2, s.z_2)
      BB == pow(p, B, 2)
      E == subtract(p, AA, BB)
      C == plus(p, s.x_3, s.z_3)
      D == subtract(p, s.x_3, s.z_3)
      DA == multiply(p, D, A)
      CB == multiply(p, C, B)
  IN [x_3 |-> pow(p, plus(p, DA, CB), 2),
      z_3 |-> multiply(p, u, pow(p, subtract(p, DA, CB), 2)),
      x_2 |-> multiply(p, AA, BB),
      z_2 |-> multiply(p, E, plus(p, AA, multiply(p, E, a24))),
      swap |-> s.swap]

(* Mutant: no swap after the loop.                                          *)
FinalSwap_omitted(s) == s

(* The two cSwap calls after the loop.                                      *)
FinalSwap(s) ==
  LET X == cSwap(s.swap, s.x_2, s.x_3)
      Z == cSwap(s.swap, s.z_2, s.z_3)
  IN [x_2 |-> X[1], x_3 |-> X[2], z_2 |-> Z[1], z_3 |-> Z[2], swap |-> s.swap]

(* The returned value: x_2 * z_2^(p-2).                                     *)
LadderResult(s, p) == multiply(p, s.x_2, pow(p, s.z_2, p - 2))

(* for (let i = bit - 1n; i >= 0n; i--) { ... }.  swap is 0 or 1 after every *)
(* iteration; testing it makes TLC evaluate each iteration's state before   *)
(* the next one instead of nesting all of them.                             *)
RECURSIVE LadderLoop(_, _, _, _, _, _)
LadderLoop(s, k, u, p, a24, i) ==
  IF i < 0 \/ s.swap \notin {0, 1} THEN s
  ELSE LadderLoop(FieldPart(SwapPart(s, k, i), u, p, a24), k, u, p, a24, i - 1)

ladder(k, u, p, a24, bit) ==
  LadderResult(FinalSwap(LadderLoop(LadderInit(u), k, u, p, a24, LoopStart(k, bit))), p)

----------------------------------------------------------------------------
(* U8 (core/utils): byte strings and the integer codecs, little-endian.     *)
(* Sequences are 1-based: byte offset 0 is index 1.                         *)

RECURSIVE fromBI(_)
fromBI(v) == IF v < 256 THEN <<v>> ELSE <<v % 256>> \o fromBI(v \div 256)

RECURSIVE toBI(_)
toBI(b) == IF b = <<>> THEN 0 ELSE Head(b) + 256 * toBI(Tail(b))

(* new U8(n): n zero bytes.                                                 *)
U8new(n) == [i \in 1..n |-> 0]

(* buf.set(src): src written at offset 0; a source longer than the buffer   *)
(* is a RangeError.                                                         *)
U8setFits(buf, src) == Len(src) <= Len(buf)

U8set(buf, src) == [i \in 1..Len(buf) |-> IF i <= Len(src) THEN src[i] ELSE buf[i]]

RECURSIVE getBIBits(_)
getBIBits(n) == IF n = 0 THEN 0 ELSE 1 + getBIBits(n \div 2)

(* A key given by the caller: a bigint or a byte string.                    *)
BI(n) == [t |-> "bigint", n |-> n, b |-> <<>>]

Bytes(b) == [t |-> "u8", n |-> 0, b |-> b]

----------------------------------------------------------------------------
(* The curve tables (core/ecParams), scaled: prime p, base point u          *)
(* coordinate, order n of the base point.                                   *)

curve25519 == [p |-> 2 ^ 15 - 19, Gx |-> 3, n |-> 4129]

curve448 == [p |-> 2 ^ 8 - 2 ^ 4 - 1, Gx |-> 2, n |-> 61]

(* What each closure captures: p, Gx, the byte width, a24, and the bit      *)
(* count it passes to ladder.                                               *)
X25519 ==
  [name |-> "x25519", p |-> curve25519.p, Gx |-> curve25519.Gx,
   byte |-> ShiftRight(getBIBits(curve25519.p) + 7, 3), a24 |-> 90, bit |-> 15]

X448 ==
  [name |-> "x448", p |-> curve448.p, Gx |-> curve448.Gx,
   byte |-> ShiftRight(getBIBits(curve448.n) + 7, 3), a24 |-> 18, bit |-> 8]

Curves == {X25519, X448}

(* Mutant: the mask does not clear the bits above the field.                *)
clamp25519_wide(d) == BitOr(BitAnd(d, -8), 2 ^ 14)

(* d & 0x7F..F8 | 0x40..00 on the 15-bit field.                             *)
clamp25519(d) == BitOr(BitAnd(d, 2 ^ 15 - 8), 2 ^ 14)

(* d & 0xFF..FC | 0x80..00 on the 8-bit field.                              *)
clamp448(d) == BitOr(BitAnd(d, 2 ^ 8 - 4), 2 ^ 7)

clamp(c, d) == IF c.name = "x25519" THEN clamp25519(d) ELSE clamp448(d)

----------------------------------------------------------------------------
(* Results of gen and ecdh: a returned value or a thrown error.             *)

Ret(d, Q, v) == [ok |-> TRUE, err |-> "", d |-> d, Q |-> Q, v |-> v]

Throw(e) == [ok |-> FALSE, err |-> e, d |-> <<>>, Q |-> <<>>, v |-> <<>>]

Unset == Throw("unset")

(* The public key buffer: const Q = new U8(p_byte); Q.set(U8.fromBI(x)).    *)
PublicKeyOf(c, d) ==
  LET x == ladder(clamp(c, d), c.Gx, c.p, c.a24, c.bit)
  IN [fits |-> U8setFits(U8new(c.byte), fromBI(x)),
      Q |-> U8set(U8new(c.byte), fromBI(x))]

(* gen('key_pair'), d_buffer being what ec.gen('private_key') returned.     *)
gen_key_pair(c, d_buffer) ==
  LET d == toBI(d_buffer)
      pk == PublicKeyOf(c, d)
  IN IF pk.fits THEN Ret(d_buffer, pk.Q, <<>>) ELSE Throw("RangeError")

(* gen('private_key').                                                      *)
gen_private_key(c, d_buffer) == Ret(d_buffer, <<>>, <<>>)

(* Mutant: the zero test is made on the clamped scalar.                     *)
gen_public_key_test_after_clamp(c, s_key) ==
  LET d_buffer == IF s_key.t = "bigint" THEN fromBI(s_key.n) ELSE s_key.b
      d == clamp(c, toBI(d_buffer))
      pk == PublicKeyOf(c, d)
  IN IF d = 0 THEN Throw("Invalid private key")
     ELSE IF pk.fits THEN Ret(d_buffer, pk.Q, <<>>) ELSE Throw("RangeError")

(* Mutant: the returned private key is encoded again from its value.        *)
gen_public_key_reencoded(c, s_key) ==
  LET d == IF s_key.t = "bigint" THEN s_key.n ELSE toBI(s_key.b)
      pk == PublicKeyOf(c, d)
  IN IF d = 0 THEN Throw("Invalid private key")
     ELSE IF pk.fits THEN Ret(fromBI(d), pk.Q, <<>>) ELSE Throw("RangeError")

(* gen('public_key', s_key).                                                *)
gen_public_key(c, s_key) ==
  LET d_buffer == IF s_key.t = "bigint" THEN fromBI(s_key.n) ELSE s_key.b
      d == toBI(d_buffer)
      pk == PublicKeyOf(c, d)
  IN IF d = 0 THEN Throw("Invalid private key")
     ELSE IF pk.fits THEN Ret(d_buffer, pk.Q, <<>>) ELSE Throw("RangeError")

(* Mutant: the private key is used as the scalar without clamp.             *)
ecdh_unclamped(c, s_key, p_key) ==
  LET u == IF p_key.t = "bigint" THEN p_key.n ELSE toBI(p_key.b)
      k == IF s_key.t = "bigint" THEN s_key.n ELSE toBI(s_key.b)
      x == ladder(k, u, c.p, c.a24, c.bit)
  IN Ret(<<>>, <<>>, fromBI(x))

(* Mutant: the zero test of gen('public_key') copied into ecdh.             *)
ecdh_rejecting_zero(c, s_key, p_key) ==
  LET u == IF p_key.t = "bigint" THEN p_key.n ELSE toBI(p_key.b)
      k == IF s_key.t = "bigint" THEN s_key.n ELSE toBI(s_key.b)
      x == ladder(clamp(c, k), u, c.p, c.a24, c.bit)
  IN IF k = 0 THEN Throw("Invalid private key") ELSE Ret(<<>>, <<>>, fromBI(x))

(* ecdh(s_key, p_key).                                                      *)
ecdh(c, s_key, p_key) ==
  LET u == IF p_key.t = "bigint" THEN p_key.n ELSE toBI(p_key.b)
      k == IF s_key.t = "bigint" THEN s_key.n ELSE toBI(s_key.b)
      x == ladder(clamp(c, k), u, c.p, c.a24, c.bit)
  IN Ret(<<>>, <<>>, fromBI(x))

----------------------------------------------------------------------------
(* ec.gen('private_key') (FpECC): a random byte string of the curve's       *)
(* width that is never all zero.  The model draws from 1..MaxKey and a few  *)
(* edge values: all bits set, only the bits clamp clears, and (x25519) a    *)
(* key whose public value has a zero high byte.                             *)

MaxKey == 2

RECURSIVE fromBIWidth(_, _)
fromBIWidth(v, n) == IF n = 0 THEN <<>> ELSE <<v % 256>> \o fromBIWidth(v \div 256, n - 1)

EdgeKeys(c) ==
  IF c.name = "x25519" THEN {7, 2544, 2 ^ 15, 2 ^ 16 - 1} ELSE {3, 2 ^ 7, 2 ^ 8 - 1}

PrivateKeys(c) == {fromBIWidth(v, c.byte) : v \in (1..MaxKey) \cup EdgeKeys(c)}

----------------------------------------------------------------------------
(* cv, kp, out: two parties A and B of one curve instance, the key pair     *)
(* each holds and the last call's result.  pin, pout: one call on given     *)
(* inputs and its result.  lad: one run of ladder, step by step.            *)
VARIABLES cv, kp, out, pin, pout, lad

vars == <<cv, kp, out, pin, pout, lad>>

Slots == {"A", "B"}

NoCall == [op |-> "none", slot |-> "", r |-> Unset, r2 |-> Unset]

NoInput == [fn |-> "none"]

Pending == [done |-> FALSE, r |-> Unset]

NoLadder == [pc |-> "off"]

Init ==
  /\ cv \in Curves
  /\ kp = [s \in Slots |-> Unset]
  /\ out = NoCall
  /\ pin = NoInput /\ pout = Pending /\ lad = NoLadder

(* A party generates its key pair.                                          *)
GenKeyPair(s) ==
  \E d_buffer \in PrivateKeys(cv) :
    /\ kp' = [kp EXCEPT ![s] = gen_key_pair(cv, d_buffer)]
    /\ out' = NoCall
    /\ UNCHANGED <<cv, pin, pout, lad>>

(* A party derives the public key again from its stored private key.        *)
Rederive(s) ==
  /\ kp[s].ok
  /\ out' = [op |-> "public_key", slot |-> s,
             r |-> gen_public_key(cv, Bytes(kp[s].d)), r2 |-> kp[s]]
  /\ UNCHANGED <<cv, kp, pin, pout, lad>>

(* Both parties run ecdh with their own private and the other's public key. *)
Agree ==
  /\ kp["A"].ok /\ kp["B"].ok
  /\ out' = [op |-> "ecdh", slot |-> "",
             r |-> ecdh(cv, Bytes(kp["A"].d), Bytes(kp["B"].Q)),
             r2 |-> ecdh(cv, Bytes(kp["B"].d), Bytes(kp["A"].Q))]
  /\ UNCHANGED <<cv, kp, pin, pout, lad>>

Next ==
  \/ \E s \in Slots : GenKeyPair(s)
  \/ \E s \in Slots : Rederive(s)
  \/ Agree

Spec == Init /\ [][Next]_vars

----------------------------------------------------------------------------
(* One call of gen or ecdh on caller-supplied inputs.                       *)

(* Private keys a caller may pass: bigints and byte strings of any length,  *)
(* zero included.                                                           *)
CallerKeys(c) ==
  {BI(n) : n \in (0..MaxKey) \cup EdgeKeys(c) \cup {2 ^ 8, 2 ^ 16, 2 ^ 16 + 1}}
    \cup {Bytes(fromBIWidth(v, w)) : v \in 0..MaxKey, w \in 0..(c.byte + 1)}
    \cup {Bytes(b) : b \in PrivateKeys(c)}

(* Peer values a caller may pass: 0 and the other u of low order, values    *)
(* of p and above, the base point, and generated public keys.               *)
PeerKeys(c) ==
  {BI(n) : n \in {0, 1, c.p - 1, c.p, c.p + 1, c.Gx, c.Gx + c.p, 2 ^ (8 * c.byte) - 1}}
    \cup {Bytes(gen_key_pair(c, d).Q) : d \in PrivateKeys(c)}
    \cup {Bytes(<<>>), Bytes(<<0>>), Bytes(<<0, 0, 0>>), Bytes(<<9, 1, 1>>)}

CallInputs ==
  UNION {
    {[fn |-> "gen_key_pair", c |-> c, s |-> Bytes(d), q |-> BI(0)] : d \in PrivateKeys(c)}
    \cup {[fn |-> "gen_private_key", c |-> c, s |-> Bytes(d), q |-> BI(0)] : d \in PrivateKeys(c)}
    \cup {[fn |-> "gen_public_key", c |-> c, s |-> s, q |-> BI(0)] : s \in CallerKeys(c)}
    \cup {[fn |-> "ecdh", c |-> c, s |-> s, q |-> q] : s \in CallerKeys(c), q \in PeerKeys(c)}
    : c \in Curves}

InitCall ==
  /\ pin \in CallInputs /\ pout = Pending
  /\ cv = X25519 /\ kp = [s \in Slots |-> Unset] /\ out = NoCall /\ lad = NoLadder

CallGenKeyPair ==
  /\ pin.fn = "gen_key_pair" /\ ~pout.done
  /\ pout' = [done |-> TRUE, r |-> gen_key_pair(pin.c, pin.s.b)]
  /\ UNCHANGED <<cv, kp, out, pin, lad>>

CallGenPrivateKey ==
  /\ pin.fn = "gen_private_key" /\ ~pout.done
  /\ pout' = [done |-> TRUE, r |-> gen_private_key(pin.c, pin.s.b)]
  /\ UNCHANGED <<cv, kp, out, pin, lad>>

CallGenPublicKey ==
  /\ pin.fn = "gen_public_key" /\ ~pout.done
  /\ pout' = [done |-> TRUE, r |-> gen_public_key(pin.c, pin.s)]
  /\ UNCHANGED <<cv, kp, out, pin, lad>>

CallEcdh ==
  /\ pin.fn = "ecdh" /\ ~pout.done
  /\ pout' = [done |-> TRUE, r |-> ecdh(pin.c, pin.s, pin.q)]
  /\ UNCHANGED <<cv, kp, out, pin, lad>>

NextCall == CallGenKeyPair \/ CallGenPrivateKey \/ CallGenPublicKey \/ CallEcdh

SpecCall == InitCall /\ [][NextCall]_vars

----------------------------------------------------------------------------
(* One application of cSwap, of a clamp, or of ladder on a small Montgomery *)
(* curve y^2 = x^3 + A*x^2 + x.                                             *)

MaxSwapVal == 9

MaxClampIn == 300

LadderBits == 5

SmallPrimes == {7, 11}

SwapVals == (0..MaxSwapVal) \cup {2 ^ 15 - 19, 2 ^ 16 - 1, 2 ^ 20 + 1}

ClampVals ==
  (0..MaxClampIn) \cup {2 ^ j : j \in 0..20} \cup {2 ^ j - 1 : j \in 0..20}
    \cup {2 ^ 20 + 2 ^ j + 5 : j \in 3..19}

(* <<p, A, u, v>>: a curve with A^2 # 4 and a point (u, v) on it.           *)
CurvePoints ==
  {q \in UNION {{<<p, A, u, v>> : A \in 0..(p - 1), u \in 0..(p - 1), v \in 0..(p - 1)}
                : p \in SmallPrimes} :
     /\ (q[2] * q[2]) % q[1] # 4 % q[1]
     /\ (q[4] * q[4]) % q[1] = (q[3] * q[3] * q[3] + q[2] * q[3] * q[3] + q[3]) % q[1]}

PureInputs ==
  {[fn |-> "cSwap", c |-> "", n |-> <<sw, x, y>>] : sw \in {0, 1}, x \in SwapVals, y \in SwapVals}
    \cup {[fn |-> "clamp", c |-> c.name, n |-> <<d>>] : c \in Curves, d \in ClampVals}
    \cup {[fn |-> "ladder", c |-> "", n |-> q \o <<k>>] :
            q \in CurvePoints, k \in 0..(2 ^ LadderBits - 1)}

PendingPure == [done |-> FALSE, v |-> <<>>]

InitPure ==
  /\ pin \in PureInputs /\ pout = PendingPure
  /\ cv = X25519 /\ kp = [s \in Slots |-> Unset] /\ out = NoCall /\ lad = NoLadder

ApplyCSwap ==
  /\ pin.fn = "cSwap" /\ ~pout.done
  /\ pout' = [done |-> TRUE, v |-> cSwap(pin.n[1], pin.n[2], pin.n[3])]
  /\ UNCHANGED <<cv, kp, out, pin, lad>>

ApplyClamp ==
  /\ pin.fn = "clamp" /\ ~pout.done
  /\ pout' = [done |-> TRUE,
              v |-> <<IF pin.c = "x25519" THEN clamp25519(pin.n[1]) ELSE clamp448(pin.n[1])>>]
  /\ UNCHANGED <<cv, kp, out, pin, lad>>

(* a24 = (A - 2) / 4 in the field.                                          *)
A24(p, A) == multiply(p, A + p - 2, pow(p, 4, p - 2))

ApplyLadder ==
  /\ pin.fn = "ladder" /\ ~pout.done
  /\ pout' = [done |-> TRUE,
              v |-> <<ladder(pin.n[5], pin.n[3], pin.n[1], A24(pin.n[1], pin.n[2]), LadderBits)>>]
  /\ UNCHANGED <<cv, kp, out, pin, lad>>

NextPure == ApplyCSwap \/ ApplyClamp \/ ApplyLadder

SpecPure == InitPure /\ [][NextPure]_vars

----------------------------------------------------------------------------
(* One run of ladder(k, u, p, a24, bit) for an instance, step by step: the  *)
(* loop test, the two cSwap calls of the body, its field operations, and    *)
(* after the loop the two cSwap calls and the inversion.  trace records the *)
(* steps executed, n the iterations completed.                              *)

MaxScalar == 3

(* Scalars: raw small ones (leading zero bits) and clamped ones.            *)
LadderScalars(c) ==
  (0..MaxScalar) \cup {clamp(c, d) : d \in {0, 2544, 2 ^ 16 - 1}}

(* u values: of low order, the base point, p and above, the full width.     *)
LadderPoints(c) == {0, 1, c.Gx, c.p - 1, c.p, c.Gx + c.p, 2 ^ (8 * c.byte) - 1}

InitLadder ==
  /\ lad \in UNION {{[pc |-> "test", c |-> c, k |-> k, u |-> u, i |-> LoopStart(k, c.bit),
                       s |-> LadderInit(u), n |-> 0, trace |-> <<>>, res |-> 0] :
                      k \in LadderScalars(c), u \in LadderPoints(c)} : c \in Curves}
  /\ cv = X25519 /\ kp = [s \in Slots |-> Unset] /\ out = NoCall
  /\ pin = NoInput /\ pout = Pending

(* i >= 0n                                                                  *)
LadderTest ==
  /\ lad.pc = "test"
  /\ lad' = [lad EXCEPT !.pc = IF lad.i >= 0 THEN "swap" ELSE "final"]
  /\ UNCHANGED <<cv, kp, out, pin, pout>>

LadderSwap ==
  /\ lad.pc = "swap"
  /\ lad' = [lad EXCEPT !.pc = "field", !.s = SwapPart(lad.s, lad.k, lad.i),
                        !.trace = @ \o <<"cSwap", "cSwap">>]
  /\ UNCHANGED <<cv, kp, out, pin, pout>>

(* The field operations, then i--.                                          *)
LadderField ==
  /\ lad.pc = "field"
  /\ lad' = [lad EXCEPT !.pc = "test", !.s = FieldPart(lad.s, lad.u, lad.c.p, lad.c.a24),
                        !.i = @ - 1, !.n = @ + 1, !.trace = @ \o <<"field">>]
  /\ UNCHANGED <<cv, kp, out, pin, pout>>

LadderReturn ==
  /\ lad.pc = "final"
  /\ lad' = [lad EXCEPT !.pc = "done", !.s = FinalSwap(lad.s),
                        !.res = LadderResult(FinalSwap(lad.s), lad.c.p),
                        !.trace = @ \o <<"cSwap", "cSwap", "invert">>]
  /\ UNCHANGED <<cv, kp, out, pin, pout>>

NextLadder == LadderTest \/ LadderSwap \/ LadderField \/ LadderReturn

SpecLadder == InitLadder /\ [][NextLadder]_vars

----------------------------------------------------------------------------
(* Properties of the two parties' session (Spec).                           *)

(* The integer a key value stands for: the bigint itself, or the bytes read *)
(* little-endian.                                                           *)
RECURSIVE ByteSum(_, _)
ByteSum(b, i) == IF i > Len(b) THEN 0 ELSE b[i] * 256 ^ (i - 1) + ByteSum(b, i + 1)

Decoded(key) == IF key.t = "bigint" THEN key.n ELSE ByteSum(key.b, 1)

(* C1: agreement symmetry.  Whenever A and B, holding key pairs returned by *)
(* gen('key_pair') on the same curve, each run ecdh with their own d and    *)
(* the other's Q as returned, both calls return and the two shared secrets  *)
(* are the same bytes.                                                      *)
C1_AgreementSymmetry ==
  out.op = "ecdh" => out.r.ok /\ out.r2.ok /\ out.r.v = out.r2.v

(* Two different key pairs, one public key with a zero high byte (the       *)
(* encoded ladder result is shorter than the buffer), a non-zero secret.    *)
C1_Witness ==
  /\ out.op = "ecdh" /\ out.r.ok
  /\ kp["A"].d # kp["B"].d
  /\ Len(kp["A"].Q) = 2 /\ kp["A"].Q[2] = 0
  /\ Decoded(Bytes(out.r.v)) # 0

(* C5: round trip.  gen('public_key', {d}) on the d of a generated pair     *)
(* returns the same d bytes and the same Q bytes, and Q is the curve-width  *)
(* little-endian encoding of ladder(clamp(decode(d)), Gx).                  *)
C5_RoundTrip ==
  out.op = "public_key" =>
    /\ out.r.ok
    /\ out.r.d = out.r2.d
    /\ out.r.Q = out.r2.Q
    /\ out.r.Q = fromBIWidth(ladder(clamp(cv, Decoded(Bytes(out.r2.d))),
                                    cv.Gx, cv.p, cv.a24, cv.bit), cv.byte)

(* A pair whose private key has a zero high byte is derived again.          *)
C5_Witness ==
  /\ out.op = "public_key" /\ out.r.ok
  /\ Len(out.r2.d) = 2 /\ out.r2.d[2] = 0 /\ out.r.Q = kp[out.slot].Q

----------------------------------------------------------------------------
(* Properties of single calls (SpecCall).                                   *)

(* C2: fixed-width encoding.  Every byte string a call returns (d, Q, the   *)
(* shared secret) has exactly the curve's byte width.                       *)
C2_FixedWidth ==
  (pout.done /\ pout.r.ok) =>
    /\ pin.fn \in {"gen_key_pair", "gen_private_key", "gen_public_key"}
         => Len(pout.r.d) = pin.c.byte
    /\ pin.fn \in {"gen_key_pair", "gen_public_key"} => Len(pout.r.Q) = pin.c.byte
    /\ pin.fn = "ecdh" => Len(pout.r.v) = pin.c.byte

(* C3: zero-scalar rejection.  gen('public_key', s_key) throws 'Invalid     *)
(* private key' and returns nothing exactly when the private key decodes to *)
(* 0, whatever clamp would make of it; otherwise it returns a key pair.     *)
C3_ZeroScalarRejection ==
  (pout.done /\ pin.fn = "gen_public_key") =>
    IF Decoded(pin.s) = 0
    THEN pout.r = Throw("Invalid private key")
    ELSE pout.r.ok /\ pout.r.err = "" /\ Len(pout.r.Q) = pin.c.byte

(* Both outcomes are checked on bytes and on bigints: the zero key is       *)
(* rejected and a non-zero key that clamp maps to the same scalar as zero   *)
(* is accepted.                                                             *)
C3_Witness ==
  /\ pout.done /\ pin.fn = "gen_public_key"
  /\ pin.s = Bytes(<<0, 0>>) /\ ~pout.r.ok /\ pin.c.name = "x25519"

C3_WitnessAccepted ==
  /\ pout.done /\ pin.fn = "gen_public_key"
  /\ Decoded(pin.s) # 0 /\ clamp(pin.c, Decoded(pin.s)) = clamp(pin.c, 0) /\ pout.r.ok

(* The u of low order on both curves and their twists.                      *)
LowOrder(c) == {0, 1, c.p - 1}

(* C4: ecdh never fails.  Every ecdh call returns a shared secret and       *)
(* throws nothing: for a private key that decodes to 0, for a peer value of *)
(* p or above, and for a peer value of low order, where the result is 0.    *)
C4_EcdhTotal ==
  (pout.done /\ pin.fn = "ecdh") =>
    /\ pout.r.ok /\ pout.r.err = "" /\ Len(pout.r.v) >= 1
    /\ Decoded(Bytes(pout.r.v)) < pin.c.p
    /\ (Decoded(pin.q) % pin.c.p) \in LowOrder(pin.c) => Decoded(Bytes(pout.r.v)) = 0

(* A zero private key against a peer value above p of low order.            *)
C4_Witness ==
  /\ pout.done /\ pin.fn = "ecdh" /\ pout.r.ok
  /\ Decoded(pin.s) = 0 /\ Decoded(pin.q) = pin.c.p + 1
  /\ Decoded(Bytes(pout.r.v)) = 0

----------------------------------------------------------------------------
(* Properties of the pure functions (SpecPure).                             *)

(* Reference point arithmetic: the affine group law of                      *)
(* y^2 = x^3 + A*x^2 + x, with the point at infinity.                       *)
Infinity == [inf |-> TRUE, x |-> 0, y |-> 0]

Affine(x, y) == [inf |-> FALSE, x |-> x, y |-> y]

Inverse(p, a) == CHOOSE b \in 1..(p - 1) : (a * b) % p = 1

PointAdd(p, A, P, Q) ==
  IF P.inf THEN Q
  ELSE IF Q.inf THEN P
  ELSE IF P.x = Q.x /\ (P.y + Q.y) % p = 0 THEN Infinity
  ELSE LET l == IF P.x = Q.x
                THEN ((3 * P.x * P.x + 2 * A * P.x + 1) * Inverse(p, (2 * P.y) % p)) % p
                ELSE ((Q.y - P.y) * Inverse(p, (Q.x - P.x) % p)) % p
           x == (l * l - A - P.x - Q.x) % p
       IN Affine(x, (l * (P.x - x) - P.y) % p)

RECURSIVE PointMul(_, _, _, _)
PointMul(p, A, k, P) ==
  IF k = 0 THEN Infinity
  ELSE LET R == PointMul(p, A, k - 1, P)
       IN IF R.inf THEN P ELSE PointAdd(p, A, R, P)

Bit(n, i) == (n \div 2 ^ i) % 2

(* C6: ladder correctness.  For every curve point P = (u, v) and every      *)
(* scalar k below 2^bits, ladder(k, u, p, a24, bits) is the u-coordinate of *)
(* k*P as the group law computes it, and 0 when k*P is the point at         *)
(* infinity.                                                                *)
C6_LadderCorrect ==
  (pout.done /\ pin.fn = "ladder") =>
    LET R == PointMul(pin.n[1], pin.n[2], pin.n[5], Affine(pin.n[3], pin.n[4]))
    IN pout.v[1] = IF R.inf THEN 0 ELSE R.x

(* An odd scalar above the point's order (a smaller multiple is the point   *)
(* at infinity) whose multiple is a finite point other than P.              *)
C6_Witness ==
  /\ pout.done /\ pin.fn = "ladder" /\ pin.n[5] % 2 = 1
  /\ pout.v[1] # 0 /\ pout.v[1] # pin.n[3]
  /\ \E j \in 1..(pin.n[5] - 1) :
       PointMul(pin.n[1], pin.n[2], j, Affine(pin.n[3], pin.n[4])).inf

(* C7: scalar clamping.  For every d >= 0 the clamp clears the low 3        *)
(* (x25519) or 2 (x448) bits, sets bit bits-1, leaves the bits between      *)
(* unchanged and leaves no bit at position bits or above, so the result     *)
(* lies in [2^(bits-1), 2^bits).                                            *)
C7_Clamp ==
  (pout.done /\ pin.fn = "clamp") =>
    LET d == pin.n[1]
        r == pout.v[1]
        bits == IF pin.c = "x25519" THEN X25519.bit ELSE X448.bit
        low == IF pin.c = "x25519" THEN 3 ELSE 2
    IN /\ \A i \in 0..(low - 1) : Bit(r, i) = 0
       /\ Bit(r, bits - 1) = 1
       /\ \A i \in low..(bits - 2) : Bit(r, i) = Bit(d, i)
       /\ \A i \in bits..24 : Bit(r, i) = 0
       /\ 2 ^ (bits - 1) <= r /\ r < 2 ^ bits

(* An input of 2^bits or above with low bits and bit bits-1 of x25519 set.  *)
C7_Witness ==
  /\ pout.done /\ pin.fn = "clamp" /\ pin.c = "x25519"
  /\ pin.n[1] >= 2 ^ 16 /\ pin.n[1] % 8 # 0 /\ pout.v[1] # pin.n[1] % 2 ^ 15

(* C9: conditional swap.  cSwap(0, x_2, x_3) = [x_2, x_3] and               *)
(* cSwap(1, x_2, x_3) = [x_3, x_2] for all non-negative x_2, x_3 of any     *)
(* widths.                                                                  *)
C9_CSwap ==
  (pout.done /\ pin.fn = "cSwap") =>
    pout.v = IF pin.n[1] = 0 THEN <<pin.n[2], pin.n[3]>> ELSE <<pin.n[3], pin.n[2]>>

(* A swap of two values of different widths.                                *)
C9_Witness ==
  /\ pout.done /\ pin.fn = "cSwap" /\ pin.n[1] = 1
  /\ pin.n[2] = 2 ^ 20 + 1 /\ pin.n[3] = 2 /\ pout.v = <<2, 2 ^ 20 + 1>>

----------------------------------------------------------------------------
(* Properties of a ladder run (SpecLadder).                                 *)

RECURSIVE Repeat(_, _)
Repeat(t, n) == IF n = 0 THEN <<>> ELSE t \o Repeat(t, n - 1)

(* The steps of a run for a given bit count.                                *)
StepsFor(bit) == Repeat(<<"cSwap", "cSwap", "field">>, bit) \o <<"cSwap", "cSwap", "invert">>

IsPrefix(a, b) == Len(a) <= Len(b) /\ a = SubSeq(b, 1, Len(a))

(* C8: data-independent control flow.  Whatever k and u are, a run executes *)
(* a prefix of the one step sequence its bit count fixes, and when it       *)
(* returns it has executed exactly that sequence: bit iterations of two     *)
(* cSwap calls and the field operations, then two cSwap calls and one       *)
(* inversion.                                                               *)
C8_FixedSteps ==
  lad.pc # "off" =>
    /\ IsPrefix(lad.trace, StepsFor(lad.c.bit))
    /\ lad.pc = "done" => lad.n = lad.c.bit /\ lad.trace = StepsFor(lad.c.bit)

(* A finished run of the scalar 1, all of whose higher bits are zero.       *)
C8_Witness ==
  /\ lad.pc = "done" /\ lad.k = 1 /\ lad.u = lad.c.Gx /\ lad.n = 15

InRange(s, p) == \A x \in {s.x_2, s.z_2, s.x_3, s.z_3} : 0 <= x /\ x < p

(* C10: peer-value range reduction.  u enters the ladder as given; after    *)
(* every loop iteration x_2, z_2, x_3, z_3 lie in [0, p), and the returned  *)
(* value lies in [0, p) and equals ladder(k, u mod p, p, a24, bits).        *)
C10_RangeReduction ==
  lad.pc # "off" =>
    /\ lad.n = 0 /\ lad.pc = "test" => lad.s.x_3 = lad.u
    /\ lad.n >= 1 /\ lad.pc \in {"test", "final", "done"} => InRange(lad.s, lad.c.p)
    /\ lad.pc = "done" =>
         /\ 0 <= lad.res /\ lad.res < lad.c.p
         /\ lad.res = ladder(lad.k, lad.u % lad.c.p, lad.c.p, lad.c.a24, lad.c.bit)

(* A clamped scalar on a u of p or above that is not of low order: the      *)
(* result is not 0.                                                         *)
C10_Witness ==
  /\ lad.pc = "done" /\ lad.u >= lad.c.p /\ lad.k = clamp(lad.c, lad.k)
  /\ lad.res # 0
=============================================================================
